---- MODULE Spec2Model ----
(***************************************************************************)
(* Model of the FLE CRUD layer of mongod (fle_crud_mongod.cpp):            *)
(* FLEMongoDResourceYielder (yield / unyield around a blocking             *)
(* sub-operation), the FLECrud thread pool lifecycle, processFLEInsert and *)
(* setMongosFieldsInReply, together with the collaborators they drive: the *)
(* session catalog (checkOut / checkIn), the transaction participant       *)
(* (stash / unstash) and the retry loop of TransactionWithRetries.         *)
(***************************************************************************)
EXTENDS Integers, FiniteSets, Sequences, TLC

\* ----------------------------------------------------------------- bounds
\* Number of top-level operation contexts (each may spawn one sub-operation).
NumCtx == 2
\* Number of logical sessions in the session catalog.
NumSessions == 1
\* Cap on the number of transient failures of one run.
MaxFail == 2
\* Largest participant-state value (accumulated statements), wraps to 1.
MaxPState == 2
\* Cap on the calls of startFLECrud, and on the calls of stopFLECrud.
MaxCalls == 2

\* ------------------------------------------------------------- vocabulary
\* OperationContextSession::get(opCtx) == nullptr: no session attached.
NoSession == 0
\* No operation context has the session checked out.
Nobody == 0
\* No transaction resources (nothing stashed / nothing on the opCtx).
Nil == -1

Ctx == 1 .. NumCtx
Sessions == 1 .. NumSessions
\* The operation context of the sub-operation issued by top-level context c.
Sub(c) == NumCtx + c

VARIABLES
    replMode,     \* ReplicationCoordinator::getReplicationMode(): "none" | "replSet"
    pool,         \* _fleCrudthreadPool: "NotStarted" (null) | "Running" | "ShutDown"
    holder,       \* session catalog: session -> context that has it checked out
    stash,        \* participant: session -> stashed TxnResources (Nil when none)
    aborted,      \* participant: session -> transaction aborted
    lsid,         \* context -> the session its operation runs on (NoSession if none)
    hasTxn,       \* context -> TransactionParticipant::get(opCtx) is non-null
    att,          \* context -> OperationContextSession::get(opCtx)
    active,       \* context -> transaction resources on the opCtx (Nil when none)
    yielded,      \* context -> FLEMongoDResourceYielder::_yielded of its run
    pc,           \* context -> control position
    subpc,        \* context -> position of the sub-operation it issued
    attempts,     \* context -> attempts started by its run
    nTransient,   \* context -> attempts of its run that failed transiently
    result,       \* context -> what processFLEInsert returned or threw
    interrupted,  \* context -> opCtx interrupt / deadline has fired
    lastOutcome,  \* context -> outcome of the last attempt that ended
    lastUnstash,  \* context -> outcome of the last unstash in unyield
    owed,         \* context -> a checkIn of its yielder has no checkOut yet
    unmatched,    \* context -> its yielder called checkOut with no checkIn owed
    savedS,       \* context -> participant state stashed by its last yield
    dirty,        \* context -> another context changed the state since that yield
    driver,       \* "run": yielder driven by the retry loop; "calls": by free calls
    reply,        \* context -> the caller's InsertCommandReply (opTime, electionId, n)
    lifecycle,    \* calls of startFLECrud / stopFLECrud made, thread pools created
    aug           \* setMongosFieldsInReply applied to one reply, once and twice

vars == <<replMode, pool, holder, stash, aborted, lsid, hasTxn, att, active,
          yielded, pc, subpc, attempts, nTransient, result, interrupted,
          lastOutcome, lastUnstash, owed, unmatched, savedS, dirty, driver,
          reply, lifecycle, aug>>

\* ---------------------------------------------- session catalog (external)
\* MongoDOperationContextSession::checkOut(opCtx) by context x can take
\* session s: no context has it checked out.
CanCheckOut(x, s) ==
    holder[s] = Nobody

\* The write a context holding the session performs on its participant state.
Bump(v) ==
    IF v = Nil THEN Nil ELSE (v % MaxPState) + 1

\* TransactionParticipant::stashTransactionResources: the snapshot kept on the
\* session for resources v of the opCtx.
StashOf(v) ==
    v

\* TransactionParticipant::unstashTransactionResources outcome for session s.
\* "Failed" stands for every error other than NoSuchTransaction.
UnstashOutcomes(s) ==
    IF aborted[s] THEN {"AlreadyAborted"} ELSE {"Restored", "Failed"}

\* Resources put back on the opCtx by a successful unstash of session s.
Restored(s) ==
    IF stash[s] = Nil THEN 0 ELSE stash[s]

\* ------------------------------------------------ reply metadata (code)
\* A reply field that is not set (boost::none).
Unset == 0

\* Both repl fields of reply r are already set: the early return of
\* setMongosFieldsInReply.
BothSet(r) ==
    r.opTime # Unset /\ r.electionId # Unset

\* Reads of the replication coordinator that setMongosFieldsInReply(r) makes
\* (getReplicationMode, and with it the last op time and the election id).
CoordinatorReads(r) ==
    IF BothSet(r) THEN 0 ELSE 1

\* A setMongosFieldsInReply without the early return.
setMongosFieldsAlways(r, mode, lastOp, electionId) ==
    IF mode # "none"
    THEN [r EXCEPT !.opTime = lastOp, !.electionId = electionId]
    ELSE r

\* A setMongosFieldsInReply that leaves the reply as it is.
setMongosFieldsNever(r, mode, lastOp, electionId) ==
    r

\* setMongosFieldsInReply(opCtx, replyBase) with the coordinator's mode, the
\* client's last op time and the coordinator's election id.
setMongosFieldsInReply(r, mode, lastOp, electionId) ==
    IF BothSet(r)
    THEN r
    ELSE IF mode # "none"
         THEN [r EXCEPT !.opTime = lastOp, !.electionId = electionId]
         ELSE r

\* The reply object the caller hands to processFLEInsert: no repl field set,
\* no document written.
DefaultReply ==
    [opTime |-> Unset, electionId |-> Unset, n |-> 0]

\* Values the unit of work may have left in a field of the reply it returns,
\* and values the replication coordinator may report.
ReplyVals == {Unset, 1}
CoordVals == {2}

\* The replies a unit of work that succeeded returns: one document written.
UnitReplies ==
    [opTime : ReplyVals, electionId : ReplyVals, n : {1}]

\* Replies setMongosFieldsInReply is applied to on its own, and the values the
\* coordinator reports to it (they may differ from one call to the next).
AugReplies ==
    [opTime : {Unset, 1, 2}, electionId : {Unset, 1, 2}, n : {0, 1}]
AugCoordVals == {3, 4}

\* No reply is being augmented.
AugIdle ==
    [stage |-> "idle", r0 |-> DefaultReply, once |-> DefaultReply,
     twice |-> DefaultReply, reads |-> 0, coord |-> <<>>]

\* ------------------------------------------- FLEMongoDResourceYielder (code)
\* A yield that never checks the session in.
YieldReleasesNever(session) ==
    FALSE

\* yield: `if (session)`: there is something to stash and check in.
YieldReleases(session) ==
    session # NoSession

\* A yield that never stashes the participant state.
YieldStashesNever(c) ==
    FALSE

\* yield: `if (auto txnParticipant = TransactionParticipant::get(opCtx))`.
YieldStashes(c) ==
    hasTxn[c]

\* A yield that records a release whether or not a session was attached.
YieldedFlagAlways(session) ==
    TRUE

\* yield: _yielded = (session != nullptr).
YieldedFlag(session) ==
    session # NoSession

\* An unyield that never checks the session out again.
UnyieldReacquiresNever(flag) ==
    FALSE

\* unyield: `if (_yielded)`: check the session out again.
UnyieldReacquires(flag) ==
    flag

\* An unyield without the catch clause.
UnyieldSwallowsNothing(outcome) ==
    FALSE

\* An unyield whose catch clause catches every exception.
UnyieldSwallowsAll(outcome) ==
    TRUE

\* unyield: `catch (ExceptionFor<ErrorCodes::NoSuchTransaction>&) {}`: the
\* unstash outcomes that are swallowed.
UnyieldSwallows(outcome) ==
    outcome = "AlreadyAborted"

\* Every context that is between its yield and its unyield on session s, other
\* than x, sees its stashed state changed.
MarkDirty(x, s) ==
    [c \in Ctx |-> IF c # x /\ lsid[c] = s THEN TRUE ELSE dirty[c]]

\* FLEMongoDResourceYielder::yield(opCtx), the whole call.
Yield(c) ==
    LET session == att[c] IN
    /\ IF YieldReleases(session)
       THEN /\ IF YieldStashes(c)
               THEN /\ stash' = [stash EXCEPT ![session] = StashOf(active[c])]
                    /\ active' = [active EXCEPT ![c] = Nil]
               ELSE UNCHANGED <<stash, active>>
            /\ holder' = [holder EXCEPT ![session] = Nobody]
            /\ att' = [att EXCEPT ![c] = NoSession]
            /\ owed' = [owed EXCEPT ![c] = TRUE]
       ELSE UNCHANGED <<stash, active, holder, att, owed>>
    /\ yielded' = [yielded EXCEPT ![c] = YieldedFlag(session)]
    /\ savedS' = [savedS EXCEPT ![c] = active[c]]
    /\ dirty' = [dirty EXCEPT ![c] = FALSE]

\* Where a context continues once unyield has returned normally.
AfterUnyield ==
    IF driver = "calls" THEN "h" ELSE "outcome"

\* unyield, first part: the `_yielded` test and the call of checkOut, which
\* blocks until the session is free.
UnyieldEnter(c, from) ==
    /\ pc[c] = from
    /\ IF UnyieldReacquires(yielded[c])
       THEN /\ pc' = [pc EXCEPT ![c] = "unyield_checkout"]
            /\ unmatched' = [unmatched EXCEPT ![c] = @ \/ ~owed[c]]
            /\ owed' = [owed EXCEPT ![c] = FALSE]
       ELSE /\ pc' = [pc EXCEPT ![c] = AfterUnyield]
            /\ UNCHANGED <<unmatched, owed>>
    /\ lastUnstash' = [lastUnstash EXCEPT ![c] = "none"]
    /\ UNCHANGED <<lifecycle, aug, replMode, pool, holder, stash, aborted, lsid, hasTxn, att,
                   active, yielded, subpc, attempts, nTransient, result,
                   interrupted, lastOutcome, savedS, dirty, driver, reply>>

\* unyield, second part: MongoDOperationContextSession::checkOut returns.
UnyieldCheckOut(c) ==
    /\ pc[c] = "unyield_checkout"
    /\ ~interrupted[c]
    /\ lsid[c] # NoSession
    /\ CanCheckOut(c, lsid[c])
    /\ holder' = [holder EXCEPT ![lsid[c]] = c]
    /\ att' = [att EXCEPT ![c] = lsid[c]]
    /\ pc' = [pc EXCEPT ![c] = "unyield_unstash"]
    /\ UNCHANGED <<lifecycle, aug, replMode, pool, stash, aborted, lsid, hasTxn, active, yielded,
                   subpc, attempts, nTransient, result, interrupted,
                   lastOutcome, lastUnstash, owed, unmatched, savedS,
                   dirty, driver, reply>>

\* An unyield that catches the interruption thrown by checkOut and returns.
UnyieldInterruptedSwallowed(c) ==
    /\ pc[c] = "unyield_checkout"
    /\ interrupted[c]
    /\ pc' = [pc EXCEPT ![c] = AfterUnyield]
    /\ UNCHANGED <<lifecycle, aug, replMode, pool, holder, stash, aborted, lsid, hasTxn, att,
                   active, yielded, subpc, attempts, nTransient, result,
                   interrupted, lastOutcome, lastUnstash, owed, unmatched,
                   savedS, dirty, driver, reply>>

\* unyield, second part when the opCtx is interrupted while waiting in
\* checkOut: checkOut throws, nothing in unyield catches it.
UnyieldInterrupted(c) ==
    /\ pc[c] = "unyield_checkout"
    /\ interrupted[c]
    /\ pc' = [pc EXCEPT ![c] = "return"]
    /\ result' = [result EXCEPT ![c] = "Cancelled"]
    /\ UNCHANGED <<lifecycle, aug, replMode, pool, holder, stash, aborted, lsid, hasTxn, att,
                   active, yielded, subpc, attempts, nTransient, interrupted, lastOutcome,
                   lastUnstash, owed, unmatched, savedS, dirty, driver, reply>>

\* unyield, third part: unstashTransactionResources inside the try block.
UnyieldUnstash(c) ==
    /\ pc[c] = "unyield_unstash"
    /\ IF hasTxn[c]
       THEN \E outcome \in UnstashOutcomes(att[c]) :
              /\ lastUnstash' = [lastUnstash EXCEPT ![c] = outcome]
              /\ IF outcome = "Restored"
                 THEN /\ active' = [active EXCEPT ![c] = Restored(att[c])]
                      /\ stash' = [stash EXCEPT ![att[c]] = Nil]
                      /\ pc' = [pc EXCEPT ![c] = AfterUnyield]
                      /\ UNCHANGED result
                 ELSE /\ UNCHANGED <<active, stash>>
                      /\ IF UnyieldSwallows(outcome)
                         THEN /\ pc' = [pc EXCEPT ![c] = AfterUnyield]
                              /\ UNCHANGED result
                         ELSE /\ pc' = [pc EXCEPT ![c] = "return"]
                              /\ result' = [result EXCEPT ![c] = outcome]
       ELSE /\ pc' = [pc EXCEPT ![c] = AfterUnyield]
            /\ UNCHANGED <<lastUnstash, active, stash, result>>
    /\ UNCHANGED <<lifecycle, aug, replMode, pool, holder, aborted, lsid, hasTxn, att, yielded,
                   subpc, attempts, nTransient, interrupted, lastOutcome,
                   owed, unmatched, savedS, dirty, driver, reply>>

\* --------------------------------------------- enclosing command (external)
\* The command that will call processFLEInsert checks its session out (blocking)
\* and puts the participant's resources on the opCtx.
BeginCommand(c) ==
    /\ pc[c] = "idle"
    /\ IF lsid[c] # NoSession
       THEN /\ CanCheckOut(c, lsid[c])
            /\ holder' = [holder EXCEPT ![lsid[c]] = c]
            /\ att' = [att EXCEPT ![c] = lsid[c]]
            /\ IF hasTxn[c] /\ ~aborted[lsid[c]]
               THEN /\ active' = [active EXCEPT ![c] = Restored(lsid[c])]
                    /\ stash' = [stash EXCEPT ![lsid[c]] = Nil]
               ELSE UNCHANGED <<active, stash>>
       ELSE UNCHANGED <<holder, att, active, stash>>
    /\ pc' = [pc EXCEPT ![c] = IF driver = "calls" THEN "h" ELSE "process"]
    /\ UNCHANGED <<lifecycle, aug, replMode, pool, aborted, lsid, hasTxn, yielded, subpc,
                   attempts, nTransient, result, interrupted, lastOutcome,
                   lastUnstash, owed, unmatched, savedS, dirty, driver, reply>>

\* The command unwinds: a session still attached to the opCtx is stashed and
\* checked in, the reply is sent, and the opCtx with the run's bookkeeping
\* (the TransactionWithRetries and its yielder) is destroyed.
EndCommand(c) ==
    /\ pc[c] = "return"
    /\ IF att[c] # NoSession
       THEN /\ holder' = [holder EXCEPT ![att[c]] = Nobody]
            /\ att' = [att EXCEPT ![c] = NoSession]
            /\ IF hasTxn[c] /\ active[c] # Nil
               THEN stash' = [stash EXCEPT ![att[c]] = StashOf(active[c])]
               ELSE UNCHANGED stash
       ELSE UNCHANGED <<holder, att, stash>>
    /\ active' = [active EXCEPT ![c] = Nil]
    /\ pc' = [pc EXCEPT ![c] = "done"]
    /\ yielded' = [yielded EXCEPT ![c] = FALSE]
    /\ attempts' = [attempts EXCEPT ![c] = 0]
    /\ nTransient' = [nTransient EXCEPT ![c] = 0]
    /\ result' = [result EXCEPT ![c] = "none"]
    /\ interrupted' = [interrupted EXCEPT ![c] = FALSE]
    /\ lastOutcome' = [lastOutcome EXCEPT ![c] = "none"]
    /\ lastUnstash' = [lastUnstash EXCEPT ![c] = "none"]
    /\ owed' = [owed EXCEPT ![c] = FALSE]
    /\ unmatched' = [unmatched EXCEPT ![c] = FALSE]
    /\ savedS' = [savedS EXCEPT ![c] = Nil]
    /\ dirty' = [dirty EXCEPT ![c] = FALSE]
    /\ reply' = [reply EXCEPT ![c] = DefaultReply]
    /\ UNCHANGED <<lifecycle, aug, replMode, pool, aborted, lsid, hasTxn, subpc, driver>>

\* The interrupt / deadline of a running operation fires.
Interrupt(c) ==
    /\ pc[c] \notin {"idle", "return", "done"}
    /\ ~interrupted[c]
    /\ interrupted' = [interrupted EXCEPT ![c] = TRUE]
    /\ UNCHANGED <<lifecycle, aug, replMode, pool, holder, stash, aborted, lsid, hasTxn, att,
                   active, yielded, pc, subpc, attempts, nTransient, result,
                   lastOutcome, lastUnstash, owed, unmatched, savedS,
                   dirty, driver, reply>>

\* ------------------------------------------------- sub-operation (external)
\* The sub-request issued by c, routed to this node, checks out c's session.
SubCheckOut(c) ==
    /\ subpc[c] = "wait"
    /\ IF lsid[c] # NoSession
       THEN /\ CanCheckOut(Sub(c), lsid[c])
            /\ holder' = [holder EXCEPT ![lsid[c]] = Sub(c)]
       ELSE UNCHANGED holder
    /\ subpc' = [subpc EXCEPT ![c] = "run"]
    /\ UNCHANGED <<lifecycle, aug, replMode, pool, stash, aborted, lsid, hasTxn, att, active,
                   yielded, pc, attempts, nTransient, result, interrupted,
                   lastOutcome, lastUnstash, owed, unmatched, savedS,
                   dirty, driver, reply>>

\* The sub-request does its work on the session and checks it in: it only
\* reads, or it unstashes, writes and stashes the participant state, or it
\* fails and aborts the transaction.
SubFinish(c, kind) ==
    /\ subpc[c] = "run"
    /\ IF lsid[c] # NoSession
       THEN /\ holder[lsid[c]] = Sub(c)
            /\ holder' = [holder EXCEPT ![lsid[c]] = Nobody]
            /\ CASE kind = "read" ->
                      UNCHANGED <<stash, aborted, dirty>>
                 [] kind = "write" ->
                      /\ stash[lsid[c]] # Nil
                      /\ stash' = [stash EXCEPT ![lsid[c]] = Bump(@)]
                      /\ dirty' = MarkDirty(Sub(c), lsid[c])
                      /\ UNCHANGED aborted
                 [] kind = "abort" ->
                      /\ hasTxn[c]
                      /\ ~aborted[lsid[c]]
                      /\ aborted' = [aborted EXCEPT ![lsid[c]] = TRUE]
                      /\ stash' = [stash EXCEPT ![lsid[c]] = Nil]
                      /\ UNCHANGED dirty
       ELSE /\ kind = "read"
            /\ UNCHANGED <<holder, stash, aborted, dirty>>
    /\ subpc' = [subpc EXCEPT ![c] = "done"]
    /\ UNCHANGED <<lifecycle, aug, replMode, pool, lsid, hasTxn, att, active, yielded, pc,
                   attempts, nTransient, result, interrupted, lastOutcome,
                   lastUnstash, owed, unmatched, savedS, driver, reply>>

\* ------------------------------------------------ pool lifecycle (code)
\* A startFLECrud that builds the pool on every node.
StartSkipsNever(mode) ==
    FALSE

\* startFLECrud: a standalone node (no oplog) does not get a pool.
StartSkips(mode) ==
    mode = "none"

\* A stopFLECrud without the null check.
PoolExistsAlways(p) ==
    TRUE

\* stopFLECrud: _fleCrudthreadPool.get() != nullptr.
PoolExists(p) ==
    p # "NotStarted"

\* The lifecycle record of a process in which nothing was called yet.
NoCalls ==
    [starts |-> 0, stops |-> 0, created |-> 0]

\* The lifecycle record after mongod's startup called startFLECrud once.
AfterStartup(mode) ==
    [starts |-> 1, stops |-> 0, created |-> IF StartSkips(mode) THEN 0 ELSE 1]

\* startFLECrud(serviceContext): unless the node is standalone, make a new
\* ThreadPool, assign it to _fleCrudthreadPool and start it up. Nothing looks
\* at the pool that _fleCrudthreadPool held before.
startFLECrud ==
    /\ lifecycle.starts < MaxCalls
    /\ IF StartSkips(replMode)
       THEN /\ pool' = pool
            /\ lifecycle' = [lifecycle EXCEPT !.starts = @ + 1]
       ELSE /\ pool' = "Running"
            /\ lifecycle' = [lifecycle EXCEPT !.starts = @ + 1,
                                              !.created = @ + 1]
    /\ UNCHANGED <<aug, replMode, holder, stash, aborted, lsid, hasTxn, att,
                   active, yielded, pc, subpc, attempts, nTransient, result,
                   interrupted, lastOutcome, lastUnstash, owed, unmatched,
                   savedS, dirty, driver, reply>>

\* stopFLECrud(): if there is a pool, shutdown() it. shutdown() signals the
\* pool and returns; stopFLECrud does not call join(), so it returns without
\* waiting for the bodies the pool is running.
stopFLECrud ==
    /\ lifecycle.stops < MaxCalls
    /\ pool' = IF PoolExists(pool) THEN "ShutDown" ELSE pool
    /\ lifecycle' = [lifecycle EXCEPT !.stops = @ + 1]
    /\ UNCHANGED <<aug, replMode, holder, stash, aborted, lsid, hasTxn, att,
                   active, yielded, pc, subpc, attempts, nTransient, result,
                   interrupted, lastOutcome, lastUnstash, owed, unmatched,
                   savedS, dirty, driver, reply>>

\* ------------------------------------------------ processFLEInsert (code)
\* A processFLEInsert without the replica set precondition.
AnyModeAccepted(mode) ==
    TRUE

\* processFLEInsert: the uassert that the node is a replica set member.
ReplSetRequired(mode) ==
    mode = "replSet"

\* A processFLEInsert that catches what processInsert throws and reports
\* kNotProcessed.
PropagatedAsNotProcessed(err) ==
    "NotProcessed"

\* processFLEInsert has no handler around processInsert: what run threw is
\* what the caller of processFLEInsert sees.
Propagated(err) ==
    err

\* A processFLEInsert that does not look at the batch result.
ReturnsEarlyNever(batchResult) ==
    FALSE

\* processFLEInsert: if (batchResult == FLEBatchResult::kNotProcessed) return.
ReturnsEarly(batchResult) ==
    batchResult = "NotProcessed"

\* processFLEInsert, up to the point where processInsert starts the
\* transaction: the precondition, the transformation layer's decision and
\* getTransactionWithRetriesForMongoD (a fresh yielder, _yielded = false).
\* When no field needs handling processInsert returns kNotProcessed with a
\* default reply and processFLEInsert goes on from there.
ProcessStart(c, plan) ==
    /\ pc[c] = "process"
    /\ IF ~ReplSetRequired(replMode)
       THEN /\ result' = [result EXCEPT ![c] = "UnsupportedMode"]
            /\ pc' = [pc EXCEPT ![c] = "return"]
            /\ UNCHANGED <<yielded, reply>>
       ELSE CASE plan = "NotNeeded" ->
                   /\ IF ReturnsEarly("NotProcessed")
                      THEN /\ result' = [result EXCEPT ![c] = "NotProcessed"]
                           /\ UNCHANGED reply
                      ELSE /\ result' = [result EXCEPT ![c] = "Processed"]
                           /\ \E lastOp \in CoordVals : \E electionId \in CoordVals :
                                  reply' = [reply EXCEPT ![c] =
                                      setMongosFieldsInReply(DefaultReply, replMode,
                                                             lastOp, electionId)]
                   /\ pc' = [pc EXCEPT ![c] = "return"]
                   /\ UNCHANGED yielded
              [] plan = "TransformationFailure" ->
                   /\ result' = [result EXCEPT ![c] = Propagated(plan)]
                   /\ pc' = [pc EXCEPT ![c] = "return"]
                   /\ UNCHANGED <<yielded, reply>>
              [] plan = "Needed" ->
                   /\ yielded' = [yielded EXCEPT ![c] = FALSE]
                   /\ pc' = [pc EXCEPT ![c] = "attempt"]
                   /\ UNCHANGED <<result, reply>>
    /\ UNCHANGED <<lifecycle, aug, replMode, pool, holder, stash, aborted, lsid,
                   hasTxn, att, active, subpc, attempts, nTransient, interrupted,
                   lastOutcome, lastUnstash, owed, unmatched, savedS,
                   dirty, driver>>

\* processFLEInsert after processInsert returned kProcessed: copy the reply of
\* the unit of work, add the repl fields, return kProcessed.
ProcessFinish(c, replyReturn, lastOp, electionId) ==
    /\ pc[c] = "post"
    /\ reply' = [reply EXCEPT ![c] =
                   setMongosFieldsInReply(replyReturn, replMode, lastOp, electionId)]
    /\ result' = [result EXCEPT ![c] = "Processed"]
    /\ pc' = [pc EXCEPT ![c] = "return"]
    /\ UNCHANGED <<lifecycle, aug, replMode, pool, holder, stash, aborted, lsid, hasTxn, att,
                   active, yielded, subpc, attempts, nTransient, interrupted,
                   lastOutcome, lastUnstash, owed, unmatched, savedS,
                   dirty, driver>>

\* ------------------------------- TransactionWithRetries::runSync (external)
\* A retry policy that retries every failure.
ShouldRetryEveryFailure(outcome) ==
    outcome # "Success"

\* The retry policy: which attempt outcomes start another attempt.
ShouldRetry(outcome) ==
    outcome = "Transient"

\* The cancellation check of the retry loop: the opCtx interrupt is consulted
\* before an attempt is scheduled.
CancelledAtBoundary(c) ==
    interrupted[c]

\* What the executor answers when a body is scheduled on pool state p: a null
\* pool pointer is dereferenced (the process dies, or the call fails), a shut
\* down pool rejects the task.
ScheduleOutcomes(p) ==
    CASE p = "Running" -> {"Scheduled"}
      [] p = "ShutDown" -> {"ShutdownInProgress"}
      [] p = "NotStarted" -> {"ShutdownInProgress", "Crash"}

\* The retry boundary: cancel, or schedule the next attempt on the pool.
StartAttempt(c, sched) ==
    /\ pc[c] = "attempt"
    /\ IF CancelledAtBoundary(c)
       THEN /\ result' = [result EXCEPT ![c] = "Cancelled"]
            /\ pc' = [pc EXCEPT ![c] = "return"]
            /\ IF att[c] # NoSession
               THEN /\ holder' = [holder EXCEPT ![att[c]] = Nobody]
                    /\ att' = [att EXCEPT ![c] = NoSession]
                    /\ IF hasTxn[c] /\ active[c] # Nil
                       THEN /\ stash' = [stash EXCEPT ![att[c]] = StashOf(active[c])]
                            /\ active' = [active EXCEPT ![c] = Nil]
                       ELSE UNCHANGED <<stash, active>>
               ELSE UNCHANGED <<holder, att, stash, active>>
            /\ UNCHANGED attempts
       ELSE /\ sched \in ScheduleOutcomes(pool)
            /\ IF sched = "Scheduled"
               THEN /\ attempts' = [attempts EXCEPT ![c] = @ + 1]
                    /\ pc' = [pc EXCEPT ![c] = "body"]
                    /\ UNCHANGED result
               ELSE /\ result' = [result EXCEPT ![c] = Propagated(sched)]
                    /\ pc' = [pc EXCEPT ![c] = "return"]
                    /\ UNCHANGED attempts
            /\ UNCHANGED <<holder, att, stash, active>>
    /\ UNCHANGED <<lifecycle, aug, replMode, pool, aborted, lsid, hasTxn, yielded, subpc,
                   nTransient, interrupted, lastOutcome, lastUnstash, owed, unmatched,
                   savedS, dirty, driver, reply>>

\* The unit of work computes locally and writes in its transaction.
BodyLocal(c) ==
    /\ pc[c] = "body"
    /\ active' = [active EXCEPT ![c] = Bump(@)]
    /\ dirty' = IF active[c] # Nil THEN MarkDirty(c, lsid[c]) ELSE dirty
    /\ pc' = [pc EXCEPT ![c] = "outcome"]
    /\ UNCHANGED <<lifecycle, aug, replMode, pool, holder, stash, aborted, lsid, hasTxn, att,
                   yielded, subpc, attempts, nTransient, result, interrupted,
                   lastOutcome, lastUnstash, owed, unmatched, savedS,
                   driver, reply>>

\* The unit of work issues a blocking sub-operation: yield, send the
\* sub-request, block on its response.
BodySubOp(c) ==
    /\ pc[c] = "body"
    /\ subpc[c] \in {"none", "done"}
    /\ Yield(c)
    /\ subpc' = [subpc EXCEPT ![c] = "wait"]
    /\ pc' = [pc EXCEPT ![c] = "blocked"]
    /\ UNCHANGED <<lifecycle, aug, replMode, pool, aborted, lsid, hasTxn, attempts, nTransient,
                   result, interrupted, lastOutcome, lastUnstash, unmatched,
                   driver, reply>>

\* The unit of work stops blocking (the response arrived, or another shard
\* answered first) and calls unyield.
BodyUnyield(c) ==
    UnyieldEnter(c, "blocked")

\* The attempt ends with an outcome; the retry loop returns or goes round.
\* The loop is cut after MaxFail + 1 attempts.
AttemptOutcome(c, outcome) ==
    /\ pc[c] = "outcome"
    /\ lastOutcome' = [lastOutcome EXCEPT ![c] = outcome]
    /\ nTransient' = [nTransient EXCEPT ![c] =
                        IF outcome = "Transient" THEN @ + 1 ELSE @]
    /\ IF ShouldRetry(outcome)
       THEN /\ attempts[c] <= MaxFail
            /\ pc' = [pc EXCEPT ![c] = "attempt"]
            /\ UNCHANGED result
       ELSE IF outcome = "Success"
            THEN /\ pc' = [pc EXCEPT ![c] = "post"]
                 /\ UNCHANGED result
            ELSE /\ pc' = [pc EXCEPT ![c] = "return"]
                 /\ result' = [result EXCEPT ![c] = Propagated(outcome)]
    /\ lastUnstash' = [lastUnstash EXCEPT ![c] = "none"]
    /\ savedS' = [savedS EXCEPT ![c] = Nil]
    /\ dirty' = [dirty EXCEPT ![c] = FALSE]
    /\ UNCHANGED <<lifecycle, aug, replMode, pool, holder, stash, aborted, lsid, hasTxn, att,
                   active, yielded, subpc, attempts, interrupted, owed,
                   unmatched, driver, reply>>

\* ------------------------------------------------------------ specification
InitCommon ==
    /\ holder = [s \in Sessions |-> Nobody]
    /\ stash = [s \in Sessions |-> Nil]
    /\ aborted = [s \in Sessions |-> FALSE]
    /\ lsid \in [Ctx -> Sessions \cup {NoSession}]
    /\ hasTxn \in [Ctx -> BOOLEAN]
    /\ \A c \in Ctx : hasTxn[c] => lsid[c] # NoSession
    /\ att = [c \in Ctx |-> NoSession]
    /\ active = [c \in Ctx |-> Nil]
    /\ yielded = [c \in Ctx |-> FALSE]
    /\ pc = [c \in Ctx |-> "idle"]
    /\ subpc = [c \in Ctx |-> "none"]
    /\ attempts = [c \in Ctx |-> 0]
    /\ nTransient = [c \in Ctx |-> 0]
    /\ result = [c \in Ctx |-> "none"]
    /\ interrupted = [c \in Ctx |-> FALSE]
    /\ lastOutcome = [c \in Ctx |-> "none"]
    /\ lastUnstash = [c \in Ctx |-> "none"]
    /\ owed = [c \in Ctx |-> FALSE]
    /\ unmatched = [c \in Ctx |-> FALSE]
    /\ savedS = [c \in Ctx |-> Nil]
    /\ dirty = [c \in Ctx |-> FALSE]
    /\ reply = [c \in Ctx |-> DefaultReply]
    /\ aug = AugIdle

\* mongod after startup: startFLECrud has run once.
Init ==
    /\ InitCommon
    /\ replMode \in {"none", "replSet"}
    /\ pool = IF replMode = "none" THEN "NotStarted" ELSE "Running"
    /\ lifecycle = AfterStartup(replMode)
    /\ driver = "run"

Next ==
    \/ \E c \in Ctx : BeginCommand(c)
    \/ \E c \in Ctx : \E plan \in {"NotNeeded", "Needed", "TransformationFailure"} :
           ProcessStart(c, plan)
    \/ \E c \in Ctx : \E sched \in {"Scheduled", "ShutdownInProgress", "Crash"} :
           StartAttempt(c, sched)
    \/ \E c \in Ctx : BodyLocal(c)
    \/ \E c \in Ctx : BodySubOp(c)
    \/ \E c \in Ctx : BodyUnyield(c)
    \/ \E c \in Ctx : UnyieldCheckOut(c)
    \/ \E c \in Ctx : UnyieldInterrupted(c)
    \/ \E c \in Ctx : UnyieldUnstash(c)
    \/ \E c \in Ctx : \E outcome \in {"Success", "Transient", "Fatal"} :
           AttemptOutcome(c, outcome)
    \/ \E c \in Ctx : \E r \in UnitReplies :
           \E lastOp \in CoordVals : \E electionId \in CoordVals :
               ProcessFinish(c, r, lastOp, electionId)
    \/ \E c \in Ctx : EndCommand(c)
    \/ \E c \in Ctx : Interrupt(c)
    \/ \E c \in Ctx : SubCheckOut(c)
    \/ \E c \in Ctx : \E kind \in {"read", "write", "abort"} : SubFinish(c, kind)

Spec == Init /\ [][Next]_vars

\* ------------------------------------------- the yielder under free calls
\* A caller that holds a yielder calls yield and unyield in any order, as the
\* ResourceYielder interface allows: yield.
CallYield(c) ==
    /\ pc[c] = "h"
    /\ Yield(c)
    /\ UNCHANGED <<lifecycle, aug, replMode, pool, aborted, lsid, hasTxn, pc, subpc, attempts,
                   nTransient, result, interrupted, lastOutcome, lastUnstash,
                   unmatched, driver, reply>>

\* The caller calls unyield.
CallUnyield(c) ==
    UnyieldEnter(c, "h")

\* The caller writes in its transaction while it has the session.
CallWork(c) ==
    /\ pc[c] = "h"
    /\ att[c] # NoSession
    /\ active[c] # Nil
    /\ active' = [active EXCEPT ![c] = Bump(@)]
    /\ dirty' = MarkDirty(c, lsid[c])
    /\ UNCHANGED <<lifecycle, aug, replMode, pool, holder, stash, aborted, lsid, hasTxn, att,
                   yielded, pc, subpc, attempts, nTransient, result,
                   interrupted, lastOutcome, lastUnstash, owed, unmatched,
                   savedS, driver, reply>>

\* The caller is done with the yielder.
CallEnd(c) ==
    /\ pc[c] = "h"
    /\ pc' = [pc EXCEPT ![c] = "return"]
    /\ UNCHANGED <<lifecycle, aug, replMode, pool, holder, stash, aborted, lsid, hasTxn, att,
                   active, yielded, subpc, attempts, nTransient, result,
                   interrupted, lastOutcome, lastUnstash, owed, unmatched,
                   savedS, dirty, driver, reply>>

InitCalls ==
    /\ InitCommon
    /\ replMode = "replSet"
    /\ pool = "Running"
    /\ lifecycle = AfterStartup(replMode)
    /\ driver = "calls"

NextCalls ==
    \/ \E c \in Ctx : BeginCommand(c)
    \/ \E c \in Ctx : CallYield(c)
    \/ \E c \in Ctx : CallUnyield(c)
    \/ \E c \in Ctx : CallWork(c)
    \/ \E c \in Ctx : CallEnd(c)
    \/ \E c \in Ctx : UnyieldCheckOut(c)
    \/ \E c \in Ctx : UnyieldUnstash(c)
    \/ \E c \in Ctx : EndCommand(c)

\* The yielder driven by arbitrary call sequences.
YielderSpec == InitCalls /\ [][NextCalls]_vars

\* ------------------------------------------------ fair scheduling, no interrupt
\* Every step of the thread running context c's command.
ThreadStep(c) ==
    \/ \E plan \in {"NotNeeded", "Needed", "TransformationFailure"} :
           ProcessStart(c, plan)
    \/ \E sched \in {"Scheduled", "ShutdownInProgress", "Crash"} :
           StartAttempt(c, sched)
    \/ BodyLocal(c)
    \/ BodySubOp(c)
    \/ BodyUnyield(c)
    \/ UnyieldCheckOut(c)
    \/ UnyieldUnstash(c)
    \/ \E outcome \in {"Success", "Transient", "Fatal"} :
           AttemptOutcome(c, outcome)
    \/ \E r \in UnitReplies :
           \E lastOp \in CoordVals : \E electionId \in CoordVals :
               ProcessFinish(c, r, lastOp, electionId)
    \/ EndCommand(c)

\* Every step of the thread serving the sub-request of c.
SubStep(c) ==
    \/ SubCheckOut(c)
    \/ \E kind \in {"read", "write", "abort"} : SubFinish(c, kind)

InitFair ==
    /\ InitCommon
    /\ replMode = "replSet"
    /\ pool = "Running"
    /\ lifecycle = AfterStartup(replMode)
    /\ driver = "run"
    /\ \A c \in Ctx : lsid[c] # NoSession /\ hasTxn[c]

NextFair ==
    \/ \E c \in Ctx : BeginCommand(c)
    \/ \E c \in Ctx : ThreadStep(c)
    \/ \E c \in Ctx : SubStep(c)

\* A replica set member whose threads are scheduled fairly and whose
\* operations are not interrupted: a thread that can take a step eventually
\* takes one.
FairSpec ==
    /\ InitFair
    /\ [][NextFair]_vars
    /\ \A c \in Ctx : WF_vars(ThreadStep(c))
    /\ \A c \in Ctx : WF_vars(SubStep(c))

\* ------------------------------------------------ the pool's life (lifecycle)
\* The process from its first instruction: no pool yet, startFLECrud and
\* stopFLECrud called by the startup and shutdown paths at any time, commands
\* (none of them on a session) arriving at any time.
InitPool ==
    /\ InitCommon
    /\ \A c \in Ctx : lsid[c] = NoSession
    /\ replMode \in {"none", "replSet"}
    /\ pool = "NotStarted"
    /\ lifecycle = NoCalls
    /\ driver = "run"

NextPool ==
    \/ startFLECrud
    \/ stopFLECrud
    \/ \E c \in Ctx : BeginCommand(c)
    \/ \E c \in Ctx : \E plan \in {"NotNeeded", "Needed", "TransformationFailure"} :
           ProcessStart(c, plan)
    \/ \E c \in Ctx : \E sched \in {"Scheduled", "ShutdownInProgress", "Crash"} :
           StartAttempt(c, sched)
    \/ \E c \in Ctx : BodyLocal(c)
    \/ \E c \in Ctx : BodySubOp(c)
    \/ \E c \in Ctx : BodyUnyield(c)
    \/ \E c \in Ctx : \E outcome \in {"Success", "Transient", "Fatal"} :
           AttemptOutcome(c, outcome)
    \/ \E c \in Ctx : \E r \in UnitReplies :
           \E lastOp \in CoordVals : \E electionId \in CoordVals :
               ProcessFinish(c, r, lastOp, electionId)
    \/ \E c \in Ctx : EndCommand(c)
    \/ \E c \in Ctx : SubCheckOut(c)
    \/ \E c \in Ctx : SubFinish(c, "read")

PoolSpec == InitPool /\ [][NextPool]_vars

\* ------------------------------------- setMongosFieldsInReply on its own
\* The first call on reply r0, with what the coordinator reports at that time.
AugmentOnce(lastOp, electionId) ==
    /\ aug.stage = "init"
    /\ aug' = [aug EXCEPT
                 !.stage = "once",
                 !.once = setMongosFieldsInReply(aug.r0, replMode, lastOp, electionId),
                 !.reads = CoordinatorReads(aug.r0),
                 !.coord = <<<<lastOp, electionId>>>>]
    /\ UNCHANGED <<lifecycle, replMode, pool, holder, stash, aborted, lsid,
                   hasTxn, att, active, yielded, pc, subpc, attempts, nTransient,
                   result, interrupted, lastOutcome, lastUnstash, owed,
                   unmatched, savedS, dirty, driver, reply>>

\* A second call on the reply the first call left, with what the coordinator
\* reports by then.
AugmentTwice(lastOp, electionId) ==
    /\ aug.stage = "once"
    /\ aug' = [aug EXCEPT
                 !.stage = "twice",
                 !.twice = setMongosFieldsInReply(aug.once, replMode, lastOp, electionId),
                 !.reads = @ + CoordinatorReads(aug.once),
                 !.coord = Append(@, <<lastOp, electionId>>)]
    /\ UNCHANGED <<lifecycle, replMode, pool, holder, stash, aborted, lsid,
                   hasTxn, att, active, yielded, pc, subpc, attempts, nTransient,
                   result, interrupted, lastOutcome, lastUnstash, owed,
                   unmatched, savedS, dirty, driver, reply>>

InitAugment ==
    /\ holder = [s \in Sessions |-> Nobody]
    /\ stash = [s \in Sessions |-> Nil]
    /\ aborted = [s \in Sessions |-> FALSE]
    /\ lsid = [c \in Ctx |-> NoSession]
    /\ hasTxn = [c \in Ctx |-> FALSE]
    /\ att = [c \in Ctx |-> NoSession]
    /\ active = [c \in Ctx |-> Nil]
    /\ yielded = [c \in Ctx |-> FALSE]
    /\ pc = [c \in Ctx |-> "idle"]
    /\ subpc = [c \in Ctx |-> "none"]
    /\ attempts = [c \in Ctx |-> 0]
    /\ nTransient = [c \in Ctx |-> 0]
    /\ result = [c \in Ctx |-> "none"]
    /\ interrupted = [c \in Ctx |-> FALSE]
    /\ lastOutcome = [c \in Ctx |-> "none"]
    /\ lastUnstash = [c \in Ctx |-> "none"]
    /\ owed = [c \in Ctx |-> FALSE]
    /\ unmatched = [c \in Ctx |-> FALSE]
    /\ savedS = [c \in Ctx |-> Nil]
    /\ dirty = [c \in Ctx |-> FALSE]
    /\ reply = [c \in Ctx |-> DefaultReply]
    /\ replMode \in {"none", "replSet"}
    /\ pool = IF replMode = "none" THEN "NotStarted" ELSE "Running"
    /\ lifecycle = AfterStartup(replMode)
    /\ driver = "run"
    /\ \E r \in AugReplies : aug = [AugIdle EXCEPT !.stage = "init", !.r0 = r]

NextAugment ==
    \/ \E lastOp \in AugCoordVals : \E electionId \in AugCoordVals :
           AugmentOnce(lastOp, electionId)
    \/ \E lastOp \in AugCoordVals : \E electionId \in AugCoordVals :
           AugmentTwice(lastOp, electionId)

AugmentSpec == InitAugment /\ [][NextAugment]_vars


\* ------------------------------------------------------------------ claims
\* Contexts that have session s checked out.
Holders(s) ==
    {c \in Ctx : att[c] = s} \cup {Sub(c) : c \in {d \in Ctx : subpc[d] = "run" /\ lsid[d] = s}}

\* Contexts at a point of their code where they work on session s as its owner.
Users(s) ==
    {c \in Ctx : lsid[c] = s /\ pc[c] \in {"process", "attempt", "body", "outcome",
                                          "post", "unyield_unstash"}}

\* C1: at most one context holds (is checked out on, or works as the owner
\* of) a given session at any time.
MutualExclusion ==
    \A s \in Sessions : Cardinality(Holders(s) \cup Users(s)) <= 1

\* C1 witness: one context holds the session while another one is blocked in
\* the checkOut of its unyield on the same session.
MutualExclusionContended ==
    \E c \in Ctx : \E d \in Ctx :
        /\ c # d
        /\ att[c] # NoSession
        /\ lsid[d] = att[c]
        /\ pc[d] = "unyield_checkout"

\* The outer transaction of c waits for its sub-operation while the
\* sub-operation waits for the session the outer transaction still holds.
SelfDeadlocked(c) ==
    /\ pc[c] \in {"blocked", "unyield_checkout"}
    /\ subpc[c] = "wait"
    /\ lsid[c] # NoSession
    /\ holder[lsid[c]] = c

\* C2: no state is a self-deadlock; under fair scheduling a sub-operation
\* that needs the session eventually finishes, and an unyield waiting in
\* checkOut eventually has the session again.
SelfDeadlockFreedom ==
    /\ [](\A c \in Ctx : ~SelfDeadlocked(c))
    /\ \A c \in Ctx : (subpc[c] = "wait") ~> (subpc[c] = "done")
    /\ \A c \in Ctx : (pc[c] = "unyield_checkout") ~> (att[c] = lsid[c])

\* C2 witness: the sub-operation has run on the session released by yield
\* and the outer transaction has the session back.
SubOperationServed ==
    \E c \in Ctx :
        /\ pc[c] = "unyield_unstash"
        /\ subpc[c] = "done"
        /\ att[c] = lsid[c]
        /\ holder[lsid[c]] = c

EveryCheckOutMatched ==
    \A c \in Ctx : ~unmatched[c]

\* C5: an unstash that reports the transaction already aborted raises no
\* error: unyield returns and the attempt goes on.
BenignAbortSwallowed ==
    \A c \in Ctx :
        lastUnstash[c] = "AlreadyAborted"
            => (pc[c] = "outcome" /\ result[c] = "none" /\ att[c] = lsid[c])

\* C5 witness: an unyield has met an aborted transaction.
BenignAbortSeen ==
    \E c \in Ctx : lastUnstash[c] = "AlreadyAborted"

\* C6: any other unstash failure leaves unyield as an error that ends the run
\* and reaches the caller unchanged.
RestorationFailurePropagates ==
    \A c \in Ctx :
        lastUnstash[c] = "Failed" => (pc[c] = "return" /\ result[c] = "Failed")

\* C6 witness: an unstash has failed after the run had retried.
RestorationFailureSeen ==
    \E c \in Ctx : lastUnstash[c] = "Failed" /\ attempts[c] > 1

\* C7: on a standalone node processFLEInsert ends with the unsupported-mode
\* error, no attempt is scheduled, the run is never entered and the reply is
\* the caller's.
StandalonePrecondition ==
    \A c \in Ctx :
        (replMode = "none" /\ pc[c] \notin {"idle", "process", "done"})
            => /\ pc[c] = "return"
               /\ result[c] = "UnsupportedMode"
               /\ attempts[c] = 0
               /\ reply[c] = DefaultReply

\* C7 witness: processFLEInsert has failed on a standalone node.
StandaloneRejected ==
    \E c \in Ctx : replMode = "none" /\ result[c] = "UnsupportedMode"

\* C8: a run whose attempt succeeds after N transient failures has made
\* exactly N + 1 attempts and returns success, not a cancellation.
RetryBoundByOutcome ==
    \A c \in Ctx :
        lastOutcome[c] = "Success"
            => /\ attempts[c] = nTransient[c] + 1
               /\ pc[c] \in {"post", "return"}
               /\ result[c] = IF pc[c] = "post" THEN "none" ELSE "Processed"

\* C8 witness: a run succeeded after MaxFail transient failures.
RetriedThenSucceeded ==
    \E c \in Ctx : result[c] = "Processed" /\ nTransient[c] = MaxFail

\* C9: a fatal error of an attempt ends the run: it is what the caller gets,
\* no attempt follows and the reply is untouched.
FatalEndsRun ==
    \A c \in Ctx :
        lastOutcome[c] = "Fatal"
            => (pc[c] = "return" /\ result[c] = "Fatal" /\ reply[c] = DefaultReply)

\* C9 witness: an attempt failed fatally after an earlier one was retried.
FatalAfterRetry ==
    \E c \in Ctx : lastOutcome[c] = "Fatal" /\ attempts[c] > 1

\* C10: a step taken by an interrupted context at the retry boundary or in
\* the checkOut of unyield ends the run with a cancellation error, starts no
\* attempt and leaves the context without a session; a cancelled context
\* holds no session.
CancellationEndsRun ==
    /\ [][\A c \in Ctx :
            (interrupted[c] /\ pc[c] \in {"attempt", "unyield_checkout"} /\ pc'[c] # pc[c])
                => /\ pc'[c] = "return"
                   /\ result'[c] = "Cancelled"
                   /\ attempts'[c] = attempts[c]
                   /\ att'[c] = NoSession]_vars
    /\ [](\A c \in Ctx : result[c] = "Cancelled" => (pc[c] = "return" /\ att[c] = NoSession))

\* C10 witness: one run was cancelled at a retry boundary and another one in
\* the checkOut of its first unyield.
CancelledBothWays ==
    \E c \in Ctx : \E d \in Ctx :
        /\ result[c] = "Cancelled" /\ lastOutcome[c] = "Transient"
        /\ result[d] = "Cancelled" /\ lastOutcome[d] = "none"

\* A context whose transaction body is on a pool thread: scheduled, not yet
\* back in the retry loop.
InFlight(c) ==
    pc[c] \in {"body", "blocked", "unyield_checkout", "unyield_unstash", "outcome"}

\* The step schedules a body of c's run on the pool.
Submits(c) ==
    /\ pc[c] = "attempt"
    /\ pc'[c] # "attempt"
    /\ ~CancelledAtBoundary(c)

\* The step is a call of startFLECrud / of stopFLECrud.
StartCalled ==
    lifecycle'.starts # lifecycle.starts

StopCalled ==
    lifecycle'.stops # lifecycle.stops

\* C11: under every interleaving of startFLECrud, stopFLECrud and
\* processFLEInsert, a transaction body is submitted only while the pool is
\* Running: never before the pool was started, never after stop has begun.
SubmitsOnlyToRunningPool ==
    [][\A c \in Ctx : Submits(c) => pool = "Running"]_vars

\* C12: once stopFLECrud has returned on a started pool, no transaction body is
\* in flight (stop signals shutdown and joins the workers).
StopLeavesNothingInFlight ==
    (pool = "ShutDown" /\ lifecycle.stops > 0) => \A c \in Ctx : ~InFlight(c)

\* C13: on a node whose replication mode is "none" startFLECrud leaves the pool
\* NotStarted (and builds none), and a stopFLECrud on a pool that was never
\* started changes nothing: not the pool, not any command in progress.
InertLifecycleOnStandalone ==
    [][/\ (replMode = "none" => pool' = "NotStarted" /\ lifecycle'.created = 0)
       /\ (StopCalled /\ pool = "NotStarted") =>
              UNCHANGED <<replMode, pool, holder, stash, aborted, lsid, hasTxn,
                          att, active, yielded, pc, subpc, attempts, nTransient,
                          result, interrupted, lastOutcome, lastUnstash, owed,
                          unmatched, savedS, dirty, driver, reply, aug>>]_vars

\* C13 witness: a standalone node on which start and stop were both called.
StandaloneStartedAndStopped ==
    /\ replMode = "none"
    /\ lifecycle.starts > 0
    /\ lifecycle.stops > 0
    /\ pool = "NotStarted"

\* C14: a startFLECrud while the pool is Running builds no second pool and does
\* not replace the running one.
DoubleStartGuarded ==
    [][(StartCalled /\ pool = "Running") =>
           lifecycle'.created = lifecycle.created]_vars

\* C15: for every reply and mode, a second setMongosFieldsInReply leaves what
\* the first one left, whatever the coordinator reports by then; and a reply
\* with both fields set is returned as it is with no read of the coordinator.
AugmentIdempotent ==
    /\ aug.stage = "twice" => aug.twice = aug.once
    /\ (aug.stage \in {"once", "twice"} /\ BothSet(aug.r0)) =>
           aug.once = aug.r0 /\ aug.reads = 0

\* C15 witness: a reply with a field missing was augmented twice on a replica
\* set member whose coordinator reported other values the second time.
AugmentedTwiceOnChangedCoordinator ==
    /\ aug.stage = "twice"
    /\ replMode = "replSet"
    /\ ~BothSet(aug.r0)
    /\ aug.coord[1][1] # aug.coord[2][1]
    /\ aug.coord[1][2] # aug.coord[2][2]

\* C16: setMongosFieldsInReply never overwrites a field that was set: a
\* position or an election id present before the call is the same after it,
\* also when only one of the two was present.
AugmentNeverOverwrites ==
    aug.stage \in {"once", "twice"} =>
        /\ aug.r0.opTime # Unset => aug.once.opTime = aug.r0.opTime
        /\ aug.r0.electionId # Unset => aug.once.electionId = aug.r0.electionId

\* The step is c's yield / c's unyield inside its unit of work.
YieldStep(c) ==
    pc[c] = "body" /\ pc'[c] = "blocked"

UnyieldStep(c) ==
    pc[c] = "blocked" /\ pc'[c] # "blocked"

\* C17: for a context with no session, the yielder processFLEInsert hands to
\* the run acts as a no-op yielder: yield records no release, unyield goes
\* straight back to the body, neither checks a session in or out nor stashes
\* or unstashes, and the session catalog and the participants stay as they are.
NoSessionYielderIsNoOp ==
    [][\A c \in Ctx : lsid[c] = NoSession =>
          /\ ~yielded'[c] /\ ~owed'[c] /\ ~unmatched'[c]
          /\ att'[c] = NoSession
          /\ pc'[c] \notin {"unyield_checkout", "unyield_unstash"}
          /\ lastUnstash'[c] = "none"
          /\ (YieldStep(c) \/ UnyieldStep(c)) =>
                 /\ UNCHANGED <<holder, stash, aborted, active, att>>
                 /\ YieldStep(c) => pc'[c] = "blocked"
                 /\ UnyieldStep(c) => pc'[c] = "outcome"]_vars

\* C17 witness: a context with no session got through a yield and an unyield
\* and its attempt succeeded.
NoSessionYieldedAndWentOn ==
    \E c \in Ctx :
        /\ lsid[c] = NoSession
        /\ subpc[c] \in {"wait", "run", "done"}
        /\ pc[c] = "post"

\* C18: a processFLEInsert that returns kNotProcessed leaves the caller's reply
\* as it was and has run neither a transaction nor the augmenter; one that
\* returns kProcessed has run a transaction attempt that succeeded.
NotProcessedLeavesReply ==
    \A c \in Ctx :
        /\ result[c] = "NotProcessed" =>
               /\ reply[c] = DefaultReply
               /\ attempts[c] = 0
               /\ lastOutcome[c] = "none"
        /\ result[c] = "Processed" =>
               /\ attempts[c] > 0
               /\ lastOutcome[c] = "Success"

\* C18 witness: one command was not processed, another was.
NotProcessedAndProcessed ==
    \E c, d \in Ctx :
        /\ result[c] = "NotProcessed"
        /\ result[d] = "Processed"

\* Copies of session s's participant state: on the opCtx of a context that
\* runs on s, or stashed on the session.
Copies(s) ==
    Cardinality({c \in Ctx : lsid[c] = s /\ active[c] # Nil})
        + (IF stash[s] # Nil THEN 1 ELSE 0)

\* The participant state is on an opCtx only while that context has the
\* session checked out, unstash runs only on a checked-out session, and the
\* state exists once.
OwnerDiscipline ==
    /\ \A c \in Ctx : active[c] # Nil =>
           att[c] = lsid[c] /\ holder[lsid[c]] = c
    /\ \A c \in Ctx : pc[c] = "unyield_unstash" =>
           att[c] = lsid[c] /\ holder[lsid[c]] = c
    /\ \A s \in Sessions : Copies(s) <= 1

\* C19: participant state is stashed and unstashed only by the context that
\* has the session checked out (yield stashes before it checks in, unyield
\* checks out before it unstashes), so a session has at most one snapshot and
\* never a snapshot next to a live copy.
StashOnlyWhileOwned ==
    [][/\ OwnerDiscipline'
       /\ \A s \in Sessions : stash'[s] # stash[s] =>
              holder[s] # Nobody \/ holder'[s] # Nobody
       /\ \A c \in Ctx : (YieldStep(c) /\ att[c] # NoSession) =>
              /\ holder[att[c]] = c
              /\ holder'[att[c]] = Nobody
              /\ active'[c] = Nil
              /\ hasTxn[c] => stash'[att[c]] = active[c]]_vars

\* C19 witness: a context stashed in yield, another holder had the session,
\* and the context has it back with the state unstashed.
StashedAndUnstashedAsOwner ==
    \E c \in Ctx :
        /\ lastUnstash[c] = "Restored"
        /\ active[c] # Nil
        /\ subpc[c] = "done"
        /\ holder[lsid[c]] = c

\* C20: whenever processFLEInsert returned kProcessed, the caller's reply is
\* the reply of the unit of work and has the replication position and the
\* election id set.
ProcessedReplyComplete ==
    \A c \in Ctx : result[c] = "Processed" =>
        /\ reply[c].n = 1
        /\ reply[c].opTime # Unset
        /\ reply[c].electionId # Unset

\* C20 witness: a processed insert whose unit of work had set no repl field;
\* both come from the coordinator.
ProcessedReplyAugmented ==
    \E c \in Ctx :
        /\ result[c] = "Processed"
        /\ reply[c].opTime \in CoordVals
        /\ reply[c].electionId \in CoordVals
        /\ reply[c].n = 1

====
